---- MODULE Spec2Model ----
(***************************************************************************)
(* Model of src/binairo.py: the Binairo grid (random fill, reversible       *)
(* single-square removal) and BinairoGenerator.generate_binairo, which      *)
(* drives a constraint solver (C1, C2 and the placed values as linear       *)
(* constraints, C3 as a filter on the reshaped solutions) while removing    *)
(* squares.  The solver is external: a search is a nondeterministic choice  *)
(* of at most two distinct satisfying assignments, in any order.            *)
(***************************************************************************)
EXTENDS Integers, Sequences, FiniteSets, TLC

VARIABLES board_size, size, grid, filled_squares, last_removed,
          solutions, last_solutions, pc, raised, calls

vars == <<board_size, size, grid, filled_squares, last_removed,
          solutions, last_solutions, pc, raised, calls>>

----------------------------------------------------------------------------
(* Bounds of the model *)

\* largest board size given to BinairoGenerator
MaxSize == 4
\* random.randint draws square_idx among the first MaxPick indices
MaxPick == 2
\* largest size of a Binairo grid driven directly through its methods
MaxGridSize == 2
\* largest number of empty squares of a grid passed as initial_grid
MaxEmpty == 2
\* number of method calls made on a Binairo grid driven directly
MaxCalls == 5

----------------------------------------------------------------------------
(* Values *)

\* Python's None as the value of an empty square
None == -1

Bit == {0, 1}

Idx(n) == 0 .. (n - 1)

\* a constant row [v] * n
ConstRow(n, v) == [j \in Idx(n) |-> v]

\* the elements of a list
Range(s) == {s[k] : k \in 1 .. Len(s)}

\* list.pop(idx), idx counted from 0; the rest of the list
Pop(s, idx) == [k \in 1 .. (Len(s) - 1) |-> IF k <= idx THEN s[k] ELSE s[k + 1]]

RECURSIVE SumTo(_, _)
\* sum(f[0], ..., f[n-1])
SumTo(f, n) == IF n <= 0 THEN 0 ELSE SumTo(f, n - 1) + f[n - 1]

----------------------------------------------------------------------------
(* class Binairo *)

\* [[random.randint(0, 1)] * size for _ in range(size)]: one draw per row
RandomGrids(n) == {[i \in Idx(n) |-> ConstRow(n, r[i])] : r \in [Idx(n) -> Bit]}

\* [(x, y) for x in range(size) for y in range(size)]
AllSquares(n) == [k \in 1 .. (n * n) |-> <<(k - 1) \div n, (k - 1) % n>>]

\* Binairo.__init__
NewBinairo(n, g) ==
    [size |-> n, grid |-> g, filled_squares |-> AllSquares(n), last_removed |-> <<>>]

\* remove_random_square without its line "self.grid[i][j] = None"
RemoveSquareKeepsValue(b, square_idx) ==
    LET sq == b.filled_squares[square_idx + 1]
    IN  [b EXCEPT !.filled_squares = Pop(b.filled_squares, square_idx),
                  !.last_removed = <<sq[1], sq[2], b.grid[sq[1]][sq[2]]>>]

\* Binairo.remove_random_square past its assertion, square_idx drawn
RemoveSquare(b, square_idx) ==
    LET sq == b.filled_squares[square_idx + 1]
        i == sq[1]
        j == sq[2]
        value == b.grid[i][j]
    IN  [b EXCEPT !.grid[i][j] = None,
                  !.filled_squares = Pop(b.filled_squares, square_idx),
                  !.last_removed = <<i, j, value>>]

\* cancel_last_remove without its line "self.grid[i][j] = value"
CancelRemoveNoValue(b) ==
    [b EXCEPT !.filled_squares = Append(b.filled_squares, <<b.last_removed[1], b.last_removed[2]>>)]

\* Binairo.cancel_last_remove when last_removed unpacks
CancelRemove(b) ==
    LET i == b.last_removed[1]
        j == b.last_removed[2]
        value == b.last_removed[3]
    IN  [b EXCEPT !.grid[i][j] = value,
                  !.filled_squares = Append(b.filled_squares, <<i, j>>)]

\* the Binairo object held in the state
Binairo == [size |-> size, grid |-> grid, filled_squares |-> filled_squares,
            last_removed |-> last_removed]

----------------------------------------------------------------------------
(* class BinairoGenerator: the constraint model *)

\* keys of var_grid, in insertion order (row by row)
VarOrder(n) == [k \in 1 .. (n * n) |-> <<(k - 1) \div n, (k - 1) % n>>]

\* one IntVar(0, 1) per square: the assignments of var_grid built from rows
Assignment(rows) == [sq \in (DOMAIN rows) \X (DOMAIN rows) |-> rows[sq[1]][sq[2]]]

RowOf(n, v, i) == [j \in Idx(n) |-> v[<<i, j>>]]

ColOf(n, v, i) == [j \in Idx(n) |-> v[<<j, i>>]]

\* 0 < sum(three consecutive elements) < 3, for each window of a line
NoThree(n, line) ==
    \A j \in Idx(n - 2) :
        LET sum_three_consecutives == line[j] + line[j + 1] + line[j + 2]
        IN  sum_three_consecutives > 0 /\ sum_three_consecutives < 3

\* the line sums to board_size // 2
HalfSum(n, line) == SumTo(line, n) = n \div 2

\* _add_initial_values: var == value for every square that is not None
InitialValues(n, g, v) ==
    \A i \in Idx(n), j \in Idx(n) : g[i][j] # None => v[<<i, j>>] = g[i][j]

\* _add_constraint_c1
ConstraintC1(n, v) ==
    \A i \in Idx(n) : NoThree(n, RowOf(n, v, i)) /\ NoThree(n, ColOf(n, v, i))

\* _add_constraint_c2
ConstraintC2(n, v) ==
    /\ \A i \in Idx(n) : HalfSum(n, RowOf(n, v, i))
    /\ \A j \in Idx(n) : HalfSum(n, ColOf(n, v, j))

\* the lines that C1 and C2 allow as a row
Lines(n) == {r \in [Idx(n) -> Bit] : NoThree(n, r) /\ HalfSum(n, r)}

\* the assignments satisfying C1 and C2 for each board size (rows are drawn
\* from Lines(n), which C1 and C2 imply of every row)
Feasible ==
    [n \in 0 .. MaxSize |->
        {v \in {Assignment(rows) : rows \in [Idx(n) -> Lines(n)]} :
            ConstraintC1(n, v) /\ ConstraintC2(n, v)}]

\* the satisfying assignments of the model built by _get_valid_solutions
Satisfying(n, g) == {v \in Feasible[n] : InitialValues(n, g, v)}

----------------------------------------------------------------------------
(* the solver search and the solution callback *)

\* VarArraySolutions.on_solution_callback: the values in variable order
SolutionCallback(n, v) ==
    LET variables == VarOrder(n)
    IN  [k \in 1 .. (n * n) |-> v[variables[k]]]

\* SearchForAllSolutions stopped by the callback at the second solution: the
\* lists of satisfying assignments on which the callback may have been called
SearchForAllSolutions(sat) ==
    IF sat = {}
    THEN {<<>>}
    ELSE IF Cardinality(sat) = 1
    THEN {<<v>> : v \in sat}
    ELSE {q \in sat \X sat : q[1] # q[2]}

\* _solve, one solution s: [[raw_solutions[s][i+j] for i in range] for j in range]
CleanSolution(n, raw_solution) ==
    [j \in Idx(n) |-> [i \in Idx(n) |-> raw_solution[i + j + 1]]]

\* the board _solve makes of each satisfying assignment the callback recorded
Cleaned ==
    [n \in 0 .. MaxSize |->
        [v \in Feasible[n] |-> CleanSolution(n, SolutionCallback(n, v))]]

\* _solve: the clean solutions of the assignments found, in discovery order
CleanSolutions(n, found) == [s \in 1 .. Len(found) |-> Cleaned[n][found[s]]]

\* _is_valid_c3 comparing the counts with <= in place of ==
IsValidC3AtMost(board) ==
    LET len == Cardinality(DOMAIN board)
    IN  /\ Cardinality({board[i] : i \in DOMAIN board}) <= len
        /\ Cardinality({[i \in DOMAIN board |-> board[i][j]] : j \in DOMAIN board}) <= len

\* _is_valid_c3: as many distinct rows, and distinct columns, as rows
IsValidC3(board) ==
    LET len == Cardinality(DOMAIN board)
    IN  /\ Cardinality({board[i] : i \in DOMAIN board}) = len
        /\ Cardinality({[i \in DOMAIN board |-> board[i][j]] : j \in DOMAIN board}) = len

\* _get_valid_solutions: the lists it may return for an n x n grid g
GetValidSolutions(n, g) ==
    {SelectSeq(CleanSolutions(n, found), IsValidC3) :
        found \in SearchForAllSolutions(Satisfying(n, g))}

----------------------------------------------------------------------------
(* BinairoGenerator.generate_binairo *)

\* BinairoGenerator(board_size): nothing built yet
Init ==
    /\ board_size \in 0 .. MaxSize
    /\ size = 0
    /\ grid = <<>>
    /\ filled_squares = <<>>
    /\ last_removed = <<>>
    /\ solutions = <<>>
    /\ last_solutions = <<>>
    /\ pc = "new"
    /\ raised = "none"
    /\ calls = 0

\* self.binairo = Binairo(self.board_size); solutions = self._get_valid_solutions()
Start ==
    /\ pc = "new"
    /\ \E g \in RandomGrids(board_size) :
        LET b == NewBinairo(board_size, g)
        IN  /\ size' = b.size
            /\ grid' = b.grid
            /\ filled_squares' = b.filled_squares
            /\ last_removed' = b.last_removed
            /\ solutions' \in GetValidSolutions(board_size, g)
    /\ pc' = "while"
    /\ UNCHANGED <<board_size, last_solutions, raised, calls>>

\* while len(solutions) == 0: last_solutions = solutions; remove_random_square()
Remove ==
    /\ pc = "while"
    /\ Len(solutions) = 0
    /\ last_solutions' = solutions
    /\ IF Len(filled_squares) > 0
       THEN \E square_idx \in 0 .. (Len(filled_squares) - 1) :
                /\ square_idx < MaxPick
                /\ LET b == RemoveSquare(Binairo, square_idx)
                   IN  /\ grid' = b.grid
                       /\ filled_squares' = b.filled_squares
                       /\ last_removed' = b.last_removed
                /\ pc' = "removed"
                /\ raised' = raised
       ELSE /\ pc' = "raised"
            /\ raised' = "AssertionError"
            /\ UNCHANGED <<grid, filled_squares, last_removed>>
    /\ UNCHANGED <<board_size, size, solutions, calls>>

\* solutions = self._get_valid_solutions()
\* if len(solutions) > 1: cancel_last_remove(); solutions = last_solutions
Solve ==
    /\ pc = "removed"
    /\ \E found \in GetValidSolutions(board_size, grid) :
        IF Len(found) > 1
        THEN LET b == CancelRemove(Binairo)
             IN  /\ grid' = b.grid
                 /\ filled_squares' = b.filled_squares
                 /\ last_removed' = b.last_removed
                 /\ solutions' = last_solutions
        ELSE /\ solutions' = found
             /\ UNCHANGED <<grid, filled_squares, last_removed>>
    /\ pc' = "while"
    /\ UNCHANGED <<board_size, size, last_solutions, raised, calls>>

\* return self.binairo, solutions[0]
Return ==
    /\ pc = "while"
    /\ Len(solutions) # 0
    /\ pc' = "done"
    /\ UNCHANGED <<board_size, size, grid, filled_squares, last_removed,
                   solutions, last_solutions, raised, calls>>

Next == Start \/ Remove \/ Solve \/ Return

Spec == Init /\ [][Next]_vars

----------------------------------------------------------------------------
(* class Binairo driven directly: Binairo(size, initial_grid), then any     *)
(* calls of remove_random_square and cancel_last_remove; an exception is    *)
(* caught by the caller, who may go on calling                              *)

\* the grids a caller passes as initial_grid: a grid as the random fill makes
\* it, with at most MaxEmpty of its squares left empty (None)
SuppliedGrids(n) ==
    {[i \in Idx(n) |-> [j \in Idx(n) |-> IF <<i, j>> \in empty THEN None ELSE g[i][j]]] :
        g \in RandomGrids(n),
        empty \in {e \in SUBSET (Idx(n) \X Idx(n)) : Cardinality(e) <= MaxEmpty}}

\* Binairo(size) or Binairo(size, initial_grid)
GridInit ==
    /\ size \in 0 .. MaxGridSize
    /\ grid \in RandomGrids(size) \cup SuppliedGrids(size)
    /\ filled_squares = NewBinairo(size, grid).filled_squares
    /\ last_removed = NewBinairo(size, grid).last_removed
    /\ board_size = size
    /\ solutions = <<>>
    /\ last_solutions = <<>>
    /\ pc = "Binairo"
    /\ raised = "none"
    /\ calls = 0

\* a call of remove_random_square
CallRemove ==
    /\ calls < MaxCalls
    /\ calls' = calls + 1
    /\ pc' = "remove_random_square"
    /\ IF Len(filled_squares) > 0
       THEN \E square_idx \in 0 .. (Len(filled_squares) - 1) :
                LET b == RemoveSquare(Binairo, square_idx)
                IN  /\ square_idx < MaxPick
                    /\ grid' = b.grid
                    /\ filled_squares' = b.filled_squares
                    /\ last_removed' = b.last_removed
                    /\ raised' = "none"
       ELSE /\ raised' = "AssertionError"
            /\ UNCHANGED <<grid, filled_squares, last_removed>>
    /\ UNCHANGED <<board_size, size, solutions, last_solutions>>

\* a call of cancel_last_remove; unpacking None raises TypeError
CallCancel ==
    /\ calls < MaxCalls
    /\ calls' = calls + 1
    /\ pc' = "cancel_last_remove"
    /\ IF last_removed # <<>>
       THEN LET b == CancelRemove(Binairo)
            IN  /\ grid' = b.grid
                /\ filled_squares' = b.filled_squares
                /\ last_removed' = b.last_removed
                /\ raised' = "none"
       ELSE /\ raised' = "TypeError"
            /\ UNCHANGED <<grid, filled_squares, last_removed>>
    /\ UNCHANGED <<board_size, size, solutions, last_solutions>>

GridNext == CallRemove \/ CallCancel

GridSpec == GridInit /\ [][GridNext]_vars

----------------------------------------------------------------------------
(* The rules of the game, as the claims state them (boards are rows of      *)
(* cells, board[row][col])                                                  *)

Squares(n) == Idx(n) \X Idx(n)

\* C1: every window of three consecutive cells of a line sums to 1 or 2
WindowsOk(n, line) ==
    \A k \in 0 .. (n - 3) : line[k] + line[k + 1] + line[k + 2] \in {1, 2}

\* C2: the line sums to size/2
BalanceOk(n, line) == SumTo(line, n) = n \div 2

Column(n, board, j) == [i \in Idx(n) |-> board[i][j]]

\* C1, C2 and C3 of a complete board
IsBinairoGrid(n, board) ==
    /\ \A i \in Idx(n) : WindowsOk(n, board[i]) /\ WindowsOk(n, Column(n, board, i))
    /\ \A i \in Idx(n) : BalanceOk(n, board[i]) /\ BalanceOk(n, Column(n, board, i))
    /\ \A i, k \in Idx(n) : i # k => board[i] # board[k]
    /\ \A i, k \in Idx(n) : i # k => Column(n, board, i) # Column(n, board, k)

\* the valid binairo grids of each size
BinairoGrids ==
    [n \in 0 .. MaxSize |->
        {board \in [Idx(n) -> {line \in [Idx(n) -> Bit] : WindowsOk(n, line) /\ BalanceOk(n, line)}] :
            IsBinairoGrid(n, board)}]

\* board agrees with every filled cell of the puzzle g
Extends(n, g, board) ==
    \A sq \in Squares(n) : g[sq[1]][sq[2]] # None => board[sq[1]][sq[2]] = g[sq[1]][sq[2]]

\* the valid binairo grids that solve the puzzle g
ValidSolutions(n, g) == {board \in BinairoGrids[n] : Extends(n, g, board)}

\* the positions of the filled cells of g
FilledCells(n, g) == {sq \in Squares(n) : g[sq[1]][sq[2]] # None}

\* the grid has a size the game is defined for (positive and even)
EvenSize == size > 0 /\ size % 2 = 0

\* generate_binairo has returned (self.binairo, solutions[0]) for a size the
\* game is defined for (positive and even)
Returned == pc = "done" /\ board_size > 0 /\ board_size % 2 = 0

ReturnedSolution == solutions[1]

----------------------------------------------------------------------------
(* Claims *)

\* C1: every puzzle returned by generate_binairo for an even size is uniquely
\* solvable: exactly one complete 0/1 grid agrees with its filled cells and
\* satisfies C1, C2 and C3.
C1_UniquelySolvable ==
    Returned => Cardinality(ValidSolutions(size, grid)) = 1

\* C2: the solution returned by generate_binairo is a valid binairo grid
\* (C1 windows, C2 balance, C3 distinct rows and columns).
C2_SolutionIsValid ==
    Returned => IsBinairoGrid(size, ReturnedSolution)

\* C3: the returned solution holds, at every filled position of the returned
\* grid, the value the grid holds there.
C3_SolutionExtendsPuzzle ==
    Returned => Extends(size, grid, ReturnedSolution)

\* C4: generate_binairo stops only when no more cells can be safely removed:
\* removing any one filled cell of the returned puzzle leaves a grid that does
\* not have exactly one valid solution.
C4_NoSafeRemovalLeft ==
    Returned =>
        \A sq \in FilledCells(size, grid) :
            Cardinality(ValidSolutions(size, [grid EXCEPT ![sq[1]][sq[2]] = None])) # 1

\* C5: enumerating again on the returned grid returns exactly the one solution
\* returned at generation time, whatever the solver discovers first.
C5_ResolveIdempotent ==
    Returned => GetValidSolutions(board_size, grid) = {<<ReturnedSolution>>}

\* C6: filled_squares is exactly the set of positions whose cell is not empty,
\* after construction and after any calls of remove_random_square and
\* cancel_last_remove (stated for the sizes the game is defined for).
C6_FilledSquaresExact ==
    EvenSize => Range(filled_squares) = FilledCells(size, grid)

\* C7: from every grid state and for every square chosen, remove_random_square
\* followed immediately by cancel_last_remove gives back every cell value and
\* the set of filled positions.
C7_RollbackRestores ==
    \A square_idx \in 0 .. (Len(filled_squares) - 1) :
        LET b == CancelRemove(RemoveSquare(Binairo, square_idx))
        IN  /\ b.grid = grid
            /\ Range(b.filled_squares) = Range(filled_squares)
            /\ b.size = size

\* C7 witness: a removal has just been cancelled on a grid of size 2 (the
\* only two calls made: a removal that took a 0 or a 1, then its cancel)
C7_RollbackWitness ==
    /\ pc = "cancel_last_remove"
    /\ raised = "none"
    /\ calls = 2
    /\ size = 2
    /\ last_removed[3] # None

\* C8: cancel_last_remove called when no removal was recorded since the
\* construction or since the last cancel fails and leaves the grid unchanged
\* (stated for the sizes the game is defined for, on a grid whose
\* filled_squares is exact).
C8_UndoConsumesRecord ==
    [][(/\ EvenSize
        /\ Range(filled_squares) = FilledCells(size, grid)
        /\ pc \in {"Binairo", "cancel_last_remove"}
        /\ pc' = "cancel_last_remove")
        => (raised' # "none" /\ grid' = grid /\ filled_squares' = filled_squares)]_vars

\* C9: remove_random_square called on a grid with no filled cell fails and
\* leaves grid, filled_squares and last_removed unchanged (stated for the
\* sizes the game is defined for).
C9_RemoveOnEmptyFails ==
    [][(EvenSize /\ FilledCells(size, grid) = {} /\ pc' = "remove_random_square")
        => (raised' # "none" /\ UNCHANGED <<grid, filled_squares, last_removed>>)]_vars

\* C10: with a size <= 0 or odd, construction fails with InvalidSize before any
\* constraint model is built or solved: generation never gets past it.
C10_InvalidSizeFails ==
    (board_size <= 0 \/ board_size % 2 = 1) =>
        (pc = "new" \/ (pc = "raised" /\ raised = "InvalidSize"))

\* the generator has built its grid for a size the game is defined for
EvenBoard == pc # "new" /\ board_size > 0 /\ board_size % 2 = 0

\* C11: a grid built without initial values draws each cell independently:
\* every size x size grid of 0s and 1s, also one with a 0 and a 1 in the same
\* row, is a possible random fill.
C11_CellsIndependent ==
    EvenBoard => [Idx(size) -> [Idx(size) -> Bit]] \subseteq RandomGrids(size)

\* the number of filled cells of the grid
FilledCount == Cardinality(FilledCells(size, grid))

\* C12: across the iterations of the generation loop the number of filled
\* cells never increases: the removal takes exactly one cell away, an accepted
\* removal leaves it away (one less over the iteration) and a rolled-back
\* removal puts exactly that cell back (unchanged over the iteration);
\* filled_squares keeps the same count.
C12_FilledCountMonotonic ==
    [][/\ (pc = "while" /\ pc' = "removed") =>
            /\ FilledCount' = FilledCount - 1
            /\ Len(filled_squares') = Len(filled_squares) - 1
       /\ (pc = "removed" /\ pc' = "while") =>
            IF last_removed' # <<>>
                   /\ grid'[last_removed'[1]][last_removed'[2]] # None
            THEN /\ FilledCount' = FilledCount + 1
                 /\ Len(filled_squares') = Len(filled_squares) + 1
            ELSE /\ FilledCount' = FilledCount
                 /\ Len(filled_squares') = Len(filled_squares)
       /\ (pc = "while" /\ pc' # "removed") => FilledCount' = FilledCount
       /\ Len(filled_squares) = FilledCount
      ]_vars

\* a removal has been rolled back after earlier removals were accepted
C12_RolledBackAfterAccepted ==
    /\ pc = "while"
    /\ EvenSize
    /\ last_removed # <<>>
    /\ grid[last_removed[1]][last_removed[2]] # None
    /\ 0 < FilledCount
    /\ FilledCount < size * size

\* the enumeration is about to run on the all-empty 4x4 grid
EmptyGrid4 == pc = "removed" /\ size = 4 /\ FilledCells(size, grid) = {}

\* C13: enumerating the all-empty 4x4 grid returns at least two distinct
\* solutions, each a valid binairo grid (C1, C2 and C3), whatever order the
\* solver discovers its solutions in.
C13_EmptyGridTwoSolutions ==
    EmptyGrid4 =>
        \A found \in GetValidSolutions(board_size, grid) :
            /\ Len(found) >= 2
            /\ found[1] # found[2]
            /\ \A k \in 1 .. Len(found) : IsBinairoGrid(size, found[k])

\* C14: every run of generate_binairo ends in Done, returning a (puzzle,
\* solution) pair: a run that can go no further has returned, it has not
\* aborted.
C14_EndsInDone ==
    (board_size > 0 /\ board_size % 2 = 0 /\ ~ENABLED Next) => pc = "done"

\* the Dense state: the first enumeration has run and nothing is removed yet
Dense == pc = "while" /\ EvenSize /\ last_removed = <<>>

\* C15: the initial fully-filled grid is its own unique solution: the first
\* enumeration, before any removal, returns exactly one solution and that
\* solution equals the grid.
C15_DenseGridIsItsSolution == Dense => solutions = <<grid>>

\* the loop has just rejected a removal and cancel_last_remove has put the
\* cell back
RolledBack ==
    /\ pc = "while"
    /\ EvenSize
    /\ last_removed # <<>>
    /\ grid[last_removed[1]][last_removed[2]] # None

\* C16: after a rejected removal the rollback restores the previous
\* unique-solution state: the grid has exactly one valid solution and the
\* solution list the loop retains holds exactly that solution.
C16_RollbackRestoresUnique ==
    RolledBack =>
        /\ Len(solutions) = 1
        /\ ValidSolutions(size, grid) = {solutions[1]}

\* C17: the enumeration run right after a removal never returns zero valid
\* solutions.
C17_NeverZeroAfterRemoval ==
    (pc = "removed" /\ board_size > 0 /\ board_size % 2 = 0) =>
        <<>> \notin GetValidSolutions(board_size, grid)

\* no two rows of the board are equal and no two columns are equal
PairwiseDistinct(n, board) ==
    /\ \A i, k \in Idx(n) : i # k => board[i] # board[k]
    /\ \A i, k \in Idx(n) : i # k => Column(n, board, i) # Column(n, board, k)

\* _get_valid_solutions is called on the grid: first enumeration done on the
\* dense grid, or a removal made and its enumeration about to run
Enumerating == pc = "removed" \/ (pc = "while" /\ last_removed = <<>>)

\* C18: for every grid the enumerator returns a sequence of 0, 1 or 2
\* solutions, the search collecting at most two raw solutions, every returned
\* solution has pairwise distinct rows and pairwise distinct columns, and an
\* infeasible model yields the empty sequence.
C18_EnumeratorResult ==
    Enumerating =>
        /\ \A raw \in SearchForAllSolutions(Satisfying(board_size, grid)) : Len(raw) <= 2
        /\ \A found \in GetValidSolutions(board_size, grid) :
            /\ Len(found) \in {0, 1, 2}
            /\ \A k \in 1 .. Len(found) : PairwiseDistinct(size, found[k])
        /\ Satisfying(board_size, grid) = {} =>
            GetValidSolutions(board_size, grid) = {<<>>}

\* a feasible grid on which the enumerator may return two boards, or none
\* because the filter dropped the boards found
C18_FilterDropsAndKeeps ==
    /\ pc = "removed"
    /\ EvenSize
    /\ Satisfying(board_size, grid) # {}
    /\ <<>> \in GetValidSolutions(board_size, grid)
    /\ \E found \in GetValidSolutions(board_size, grid) : Len(found) = 2

\* C19: _solve reshapes each raw solver assignment faithfully: for every
\* assignment the solver can collect and every position (row, col), cell
\* [row][col] of the returned board equals the value the solver gave the
\* variable of cell (row, col).
C19_ReshapeFaithful ==
    (pc = "removed" /\ EvenSize) =>
        \A v \in Satisfying(board_size, grid) :
            \A sq \in Squares(size) :
                CleanSolution(size, SolutionCallback(size, v))[sq[1]][sq[2]] = v[sq]

\* C20: the generation loop never attempts a removal on a grid with no filled
\* cell: whenever the loop is about to call remove_random_square,
\* filled_squares is non-empty.
C20_LoopRemovesFromNonEmpty ==
    (pc = "while" /\ Len(solutions) = 0 /\ EvenSize) => Len(filled_squares) > 0

====
